---------------------------- MODULE Spec2Model ----------------------------
(***************************************************************************)
(* A model of test/compare.py of yk_gmd_io: the GMD comparer.              *)
(*                                                                         *)
(*   - VertApproxData / VertSet        (exact and tolerant vertex sets)    *)
(*   - FusedVertVoxelSet               (voxel index and check_one_to_one)  *)
(*   - compare_same_layout_meshes, compare_same_layout_mesh_vertex_fusions *)
(*   - compare_single_node_pair, recursive_compare_node_lists              *)
(*                                                                         *)
(* Floats are fixed-point integers: every float the program reads is a raw  *)
(* integer count of 1e-6, so that voxel_size = 1e-4 is 100 and             *)
(* pos_epsilon = 1e-5 is 10; round(x, d) maps a raw value to an integer    *)
(* count of 10^-d.                                                         *)
(***************************************************************************)
EXTENDS Integers, Sequences, FiniteSets, TLC

VARIABLES
    pc,          \* position of the driver: which call is running or has returned
    reports,     \* the ErrorReporter: the sequence of info/recoverable/fatal calls
    ret,         \* the value the last call returned ("none" before any call)
    evaluated,   \* the VertSet operations compare_same_layout_meshes has evaluated
    srcMesh,     \* src mesh group: the raw vertex records of the referenced slots
    dstMesh,     \* dst mesh group
    srcVertices, \* VertSet built from srcMesh by add
    dstVertices, \* VertSet built from dstMesh by add
    srcWeld,     \* vertex_fusion's output for src: each fused vertex's first slot
    dstWeld,     \* vertex_fusion's output for dst
    srcFused,    \* FusedVertVoxelSet of the src fused vertices
    dstFused,    \* FusedVertVoxelSet of the dst fused vertices
    oneToOne,    \* the outcome of the last check_one_to_one call
    skinned,     \* --skinned
    vertices,    \* --vertices
    srcRoots,    \* src scene roots (a list of node trees)
    dstRoots,    \* dst scene roots
    stack,       \* the call stack of recursive_compare_node_lists
    calls        \* the compare_single_node_pair invocations, by child path

vars == <<pc, reports, ret, evaluated, srcMesh, dstMesh, srcVertices, dstVertices,
          srcWeld, dstWeld, srcFused, dstFused, oneToOne, skinned, vertices, srcRoots, dstRoots,
          stack, calls>>

meshVars == <<evaluated, srcMesh, dstMesh, srcVertices, dstVertices>>
fusionVars == <<srcWeld, dstWeld, srcFused, dstFused, oneToOne>>
treeVars == <<skinned, vertices, srcRoots, dstRoots, stack, calls>>

-----------------------------------------------------------------------------
(* Generic helpers *)

Abs(x) == IF x < 0 THEN -x ELSE x

RECURSIVE SumSeq(_)
SumSeq(s) == IF s = <<>> THEN 0 ELSE Head(s) + SumSeq(Tail(s))

Min(a, b) == IF a < b THEN a ELSE b

RECURSIVE Concat(_)
Concat(ss) == IF ss = <<>> THEN <<>> ELSE Head(ss) \o Concat(Tail(ss))

Range(s) == {s[i] : i \in DOMAIN s}

\* Python's Optional: None, or a present value
None == [some |-> FALSE, val |-> <<>>]
Some(v) == [some |-> TRUE, val |-> v]

\* round(): x is a raw value, q the number of raw units in the target unit;
\* the result counts target units, ties go to the even neighbour
RoundHalfEven(x, q) ==
    LET f == x \div q
        r == x % q
    IN  IF 2 * r < q THEN f
        ELSE IF 2 * r > q THEN f + 1
        ELSE IF f % 2 = 0 THEN f ELSE f + 1

\* round(x, d): 10^(6-d) raw units per unit of 10^-d
Round1(x) == RoundHalfEven(x, 100000)
Round2(x) == RoundHalfEven(x, 10000)
Round3(x) == RoundHalfEven(x, 1000)
Round4(x) == RoundHalfEven(x, 100)

RoundVec2(v) == [i \in DOMAIN v |-> Round2(v[i])]
RoundVec3(v) == [i \in DOMAIN v |-> Round3(v[i])]
RoundVec4(v) == [i \in DOMAIN v |-> Round4(v[i])]

\* Python's int(): truncation toward zero of x / d
TruncDiv(x, d) == IF x >= 0 THEN x \div d ELSE -((-x) \div d)

-----------------------------------------------------------------------------
(* VertApproxData *)

\* Vector.resized(4): pad with zeros or truncate to 4 components
Resized4(v) == [i \in 1..4 |-> IF i <= Len(v) THEN v[i] ELSE 0]

\* VertApproxData.new: both channels resized to 4 and rounded to 2 decimals
VertApproxDataNew(normal, tangent) ==
    [normal  |-> IF normal.some THEN Some(RoundVec2(Resized4(normal.val))) ELSE None,
     tangent |-> IF tangent.some THEN Some(RoundVec2(Resized4(tangent.val))) ELSE None]

\* Vector.dot on two rounded 4-vectors (units of 1e-4)
Dot(a, b) == SumSeq([i \in 1..4 |-> a[i] * b[i]])

\* t = 0.9 in units of 1e-4
ApproxEqThreshold == 9000

\* an approx_eq that accepts any other when self has no normal
ApproxEqOneSided(self, other) ==
    IF ~self.normal.some
    THEN TRUE
    ELSE ~(~other.normal.some \/ Dot(self.normal.val, other.normal.val) < ApproxEqThreshold)

\* VertApproxData.approx_eq (the tangent test is commented out in the source)
ApproxEq(self, other) ==
    IF ~self.normal.some
    THEN ~other.normal.some
    ELSE ~(~other.normal.some \/ Dot(self.normal.val, other.normal.val) < ApproxEqThreshold)

-----------------------------------------------------------------------------
(* VertSet *)

\* VertSet.__init__
VertSetNew == [verts |-> <<>>, len |-> 0]

VertSetKeys(vs) == DOMAIN vs.verts

\* VertSet.add: the fingerprint joins the key's set, len counts every call
VertSetAdd(vs, vert_exact, vert_approx) ==
    [verts |-> [k \in VertSetKeys(vs) \cup {vert_exact} |->
                   IF k = vert_exact
                   THEN (IF k \in VertSetKeys(vs) THEN vs.verts[k] ELSE {}) \cup {vert_approx}
                   ELSE vs.verts[k]],
     len |-> vs.len + 1]

\* VertSet.exact_difference
ExactDifference(self, other) == VertSetKeys(self) \ VertSetKeys(other)

\* the fingerprints of self under a key of both sets that fail to match some
\* fingerprint of other's
DifferingVaAgainstAll(self, other, k) ==
    {v_a \in self.verts[k] : ~(\A v_a_alt \in other.verts[k] : ApproxEq(v_a, v_a_alt))}

\* the fingerprints of self under a key of both sets that match none of other's
DifferingVa(self, other, k) ==
    {v_a \in self.verts[k] : ~(\E v_a_alt \in other.verts[k] : ApproxEq(v_a, v_a_alt))}

\* VertSet.difference: a mapping key -> differing fingerprints (as a set)
Difference(self, other) ==
    LET missing == VertSetKeys(self) \ VertSetKeys(other)
        common  == {k \in VertSetKeys(self) \cap VertSetKeys(other) :
                        DifferingVa(self, other, k) # {}}
    IN  [k \in missing \cup common |->
            IF k \in missing THEN self.verts[k] ELSE DifferingVa(self, other, k)]

-----------------------------------------------------------------------------
(* The error reporter *)

\* one call of error.info / error.recoverable / error.fatal
Report(sev, what, field, context) ==
    [sev |-> sev, what |-> what, field |-> field, context |-> context]

NumBySeverity(rs, sev) == Cardinality({i \in DOMAIN rs : rs[i].sev = sev})

-----------------------------------------------------------------------------
(* get_unique_verts / get_unique_skinned_verts *)

\* a key entry is a rounded float or a tuple of rounded floats
KeyFloat(x) == [kind |-> "float", val |-> <<x>>]
KeyTuple(t) == [kind |-> "tuple", val |-> t]
nul_item == KeyTuple(<<0>>)

\* round every component of an optional channel to 2 decimals, nul_item if absent
KeyChannel2(ch) == IF ch.some THEN KeyTuple(RoundVec2(ch.val)) ELSE nul_item

\* the exact key of an unskinned vertex slot (compare.py 247-259)
ExactKey(v) ==
    [pos       |-> KeyTuple(RoundVec2(v.pos)),
     normal_w  |-> IF v.normal.some THEN KeyFloat(Round4(v.normal.val[4])) ELSE nul_item,
     tangent_w |-> IF v.tangent.some THEN KeyFloat(Round4(v.tangent.val[4])) ELSE nul_item,
     col0      |-> KeyChannel2(v.col0),
     col1      |-> KeyChannel2(v.col1),
     unk       |-> KeyChannel2(v.unk),
     uvs       |-> KeyTuple(RoundVec2(Concat(v.uvs))),
     tag       |-> "b,w",
     bone      |-> IF v.bone_data.some
                   THEN KeyTuple([i \in DOMAIN v.bone_data.val |-> Round1(v.bone_data.val[i])])
                   ELSE nul_item,
     weight    |-> KeyChannel2(v.weight_data)]

\* (bone name, rounded w) for the zipped (bone, weight) pairs with w > 0; q is
\* the number of raw units per rounded unit
RECURSIVE BoneWeightPairs(_, _, _, _)
BoneWeightPairs(relevant_bones, bs, ws, q) ==
    IF bs = <<>> \/ ws = <<>> THEN <<>>
    ELSE (IF Head(ws) > 0
          THEN << <<relevant_bones[TruncDiv(Head(bs), 1000000) + 1],
                    RoundHalfEven(Head(ws), q)>> >>
          ELSE <<>>)
         \o BoneWeightPairs(relevant_bones, Tail(bs), Tail(ws), q)

\* the exact key of a skinned vertex slot (compare.py 276-290)
ExactSkinnedKey(relevant_bones, v) ==
    [pos       |-> KeyTuple(RoundVec2(v.pos)),
     normal_w  |-> IF v.normal.some THEN KeyFloat(Round4(v.normal.val[4])) ELSE nul_item,
     tangent_w |-> IF v.tangent.some THEN KeyFloat(Round4(v.tangent.val[4])) ELSE nul_item,
     col0      |-> KeyChannel2(v.col0),
     col1      |-> KeyChannel2(v.col1),
     unk       |-> KeyChannel2(v.unk),
     uvs       |-> KeyTuple(RoundVec2(Concat(v.uvs))),
     tag       |-> "bw",
     bone      |-> KeyTuple(BoneWeightPairs(relevant_bones, v.bone_data.val, v.weight_data.val, 1000)),
     weight    |-> KeyTuple(<<>>)]

\* the loop over set(triangle_strip_noreset_indices) of one mesh
RECURSIVE AddSlots(_, _, _, _)
AddSlots(is_skinned, all_verts, gmd_mesh, slots) ==
    IF slots = {} THEN all_verts
    ELSE LET i == CHOOSE x \in slots : \A y \in slots : x <= y
             v == gmd_mesh.vertices_data[i + 1]
             k == IF is_skinned THEN ExactSkinnedKey(gmd_mesh.relevant_bones, v)
                  ELSE ExactKey(v)
         IN  AddSlots(is_skinned,
                      VertSetAdd(all_verts, k, VertApproxDataNew(v.normal, v.tangent)),
                      gmd_mesh, slots \ {i})

RECURSIVE AddMeshes(_, _, _)
AddMeshes(is_skinned, all_verts, ms) ==
    IF ms = <<>> THEN all_verts
    ELSE AddMeshes(is_skinned,
                   AddSlots(is_skinned, all_verts, Head(ms),
                            Range(Head(ms).triangle_strip_noreset_indices)),
                   Tail(ms))

get_unique_verts(ms) == AddMeshes(FALSE, VertSetNew, ms)

get_unique_skinned_verts(ms) == AddMeshes(TRUE, VertSetNew, ms)

-----------------------------------------------------------------------------
(* compare_same_layout_meshes *)

\* lines 382-387: the VertSet of a side
UniqueVertsOf(is_skinned, ms) ==
    IF is_skinned THEN get_unique_skinned_verts(ms) ELSE get_unique_verts(ms)

\* the verdict of a comparison that looks for exact keys missing from dst only
MeshesVerdictOneDirection(src_vertices, dst_vertices, context) ==
    IF ExactDifference(src_vertices, dst_vertices) # {}
    THEN [reports |-> <<Report("fatal", "exact data differs", "", context)>>,
          ret |-> FALSE,
          evaluated |-> <<"exact_difference", "exact_difference">>,
          src_vertices |-> src_vertices, dst_vertices |-> dst_vertices]
    ELSE IF DOMAIN Difference(src_vertices, dst_vertices) # {}
               \/ DOMAIN Difference(dst_vertices, src_vertices) # {}
    THEN [reports |-> <<Report("recoverable", "APPROX data differs", "", context)>>,
          ret |-> FALSE,
          evaluated |-> <<"exact_difference", "exact_difference", "difference", "difference">>,
          src_vertices |-> src_vertices, dst_vertices |-> dst_vertices]
    ELSE [reports |-> <<>>,
          ret |-> TRUE,
          evaluated |-> <<"exact_difference", "exact_difference", "difference", "difference">>,
          src_vertices |-> src_vertices, dst_vertices |-> dst_vertices]

\* lines 389-422 on the two VertSets.  The outcome: what the call reported, what
\* it returned, and which VertSet operations it evaluated, in order
MeshesVerdict(src_vertices, dst_vertices, context) ==
    IF ExactDifference(src_vertices, dst_vertices) # {}
           \/ ExactDifference(dst_vertices, src_vertices) # {}
    THEN [reports |-> <<Report("fatal", "exact data differs", "", context)>>,
          ret |-> FALSE,
          evaluated |-> <<"exact_difference", "exact_difference">>,
          src_vertices |-> src_vertices, dst_vertices |-> dst_vertices]
    ELSE IF DOMAIN Difference(src_vertices, dst_vertices) # {}
               \/ DOMAIN Difference(dst_vertices, src_vertices) # {}
    THEN [reports |-> <<Report("recoverable", "APPROX data differs", "", context)>>,
          ret |-> FALSE,
          evaluated |-> <<"exact_difference", "exact_difference", "difference", "difference">>,
          src_vertices |-> src_vertices, dst_vertices |-> dst_vertices]
    ELSE [reports |-> <<>>,
          ret |-> TRUE,
          evaluated |-> <<"exact_difference", "exact_difference", "difference", "difference">>,
          src_vertices |-> src_vertices, dst_vertices |-> dst_vertices]

compare_same_layout_meshes(is_skinned, src, dst, context) ==
    MeshesVerdict(UniqueVertsOf(is_skinned, src), UniqueVertsOf(is_skinned, dst), context)

-----------------------------------------------------------------------------
(* FusedVertVoxelSet *)

\* voxel_size = 0.0001 and pos_epsilon = 0.00001 in units of 1e-6
DefaultVoxelSize == 100
DefaultPosEpsilon == 10

\* FusedVertVoxelSet.__init__: voxels is the dict in insertion order, a sequence
\* of [key, idxs] entries; vertex indices count from 1 here, from 0 in Python
FusedVertVoxelSetNew(voxel_size) ==
    [voxels |-> <<>>, voxel_size |-> voxel_size, verts |-> <<>>]

VoxelKeys(voxels) == {voxels[e].key : e \in DOMAIN voxels}

\* voxels[key] of a key that is present
VoxelMembers(voxels, key) ==
    voxels[CHOOSE e \in DOMAIN voxels : voxels[e].key = key].idxs

\* the voxel of a position: int(x / voxel_size) per axis
VoxelOf(exact_pos, voxel_size) ==
    <<TruncDiv(exact_pos[1], voxel_size),
      TruncDiv(exact_pos[2], voxel_size),
      TruncDiv(exact_pos[3], voxel_size)>>

\* FusedVertVoxelSet.add
FusedAdd(self, exact_pos, exact_norm, rounded_bw) ==
    LET voxel == VoxelOf(exact_pos, self.voxel_size)
        idx   == Len(self.verts) + 1
    IN  [self EXCEPT
            !.voxels = IF voxel \in VoxelKeys(self.voxels)
                       THEN [e \in DOMAIN self.voxels |->
                               IF self.voxels[e].key = voxel
                               THEN [key |-> voxel, idxs |-> Append(self.voxels[e].idxs, idx)]
                               ELSE self.voxels[e]]
                       ELSE Append(self.voxels, [key |-> voxel, idxs |-> <<idx>>]),
            !.verts = Append(self.verts,
                             [pos |-> exact_pos, norm |-> exact_norm, bw |-> rounded_bw])]

\* a window that looks ahead only
WindowOffsetsForward == <<0, 1, 2, 3>>

\* the per-axis offsets of the neighbour window, in loop order
WindowOffsets == <<-1, 0, 1, 2>>

\* the 4x4x4 block of voxel keys around voxel_key, in the order of the x, y, z loops
NeighbourBlock(voxel_key) ==
    [n \in 1..64 |->
        <<voxel_key[1] + WindowOffsets[((n - 1) \div 16) + 1],
          voxel_key[2] + WindowOffsets[(((n - 1) \div 4) % 4) + 1],
          voxel_key[3] + WindowOffsets[((n - 1) % 4) + 1]>>]

\* reading defaultdict voxels[key] for each key of block: a missing key is inserted
\* with an empty list
TouchVoxels(voxels, block) ==
    LET keys == VoxelKeys(voxels)
        missing == SelectSeq(block, LAMBDA k : k \notin keys)
    IN  voxels \o [n \in DOMAIN missing |-> [key |-> missing[n], idxs |-> <<>>]]

\* the member indices of the block's voxels that exist, concatenated in block order
SearchSpace(voxels, block) ==
    LET keys == VoxelKeys(voxels)
        present == SelectSeq(block, LAMBDA k : k \in keys)
    IN  Concat([n \in DOMAIN present |-> VoxelMembers(voxels, present[n])])

\* (a - b).length_squared
LengthSquared(a, b) ==
    (a[1] - b[1]) * (a[1] - b[1]) + (a[2] - b[2]) * (a[2] - b[2])
        + (a[3] - b[3]) * (a[3] - b[3])

\* the entries (idx, rounded normal or None, pos) of the search space that match
\* self_v in bone weights and lie within pos_epsilon of it
RECURSIVE PotentialVerts(_, _, _, _)
PotentialVerts(self_v, set_verts, search_space, pos_epsilon_sqr) ==
    IF search_space = <<>> THEN <<>>
    ELSE LET i == Head(search_space)
             o == set_verts[i]
         IN  (IF o.bw = self_v.bw /\ LengthSquared(self_v.pos, o.pos) < pos_epsilon_sqr
              THEN <<[idx |-> i,
                      norm |-> IF o.norm.some THEN Some(RoundVec3(o.norm.val)) ELSE None,
                      pos |-> o.pos]>>
              ELSE <<>>)
             \o PotentialVerts(self_v, set_verts, Tail(search_space), pos_epsilon_sqr)

\* the classification that also lists a vertex with as many candidates in other
\* as in self
ClassifyVertAtLeast(acc, self_v, potential_self_verts, potential_other_verts) ==
    LET counted == acc.counted \cup
                       {potential_other_verts[n].idx : n \in DOMAIN potential_other_verts}
    IN  IF Len(potential_other_verts) = 0
        THEN [acc EXCEPT !.no_equiv = Append(@, self_v), !.counted = counted]
        ELSE IF Len(potential_other_verts) >= Len(potential_self_verts)
        THEN [acc EXCEPT !.unfused = Append(@, [pos |-> self_v.pos,
                                                bw |-> self_v.bw,
                                                self_cands |-> potential_self_verts,
                                                other_cands |-> potential_other_verts]),
                         !.counted = counted]
        ELSE [acc EXCEPT !.counted = counted]

\* lines 213 and 222-226: self_v is classified by its candidates; acc holds
\* has_no_equiv_in_other, was_unfused_in_other and counted_other_verts
ClassifyVert(acc, self_v, potential_self_verts, potential_other_verts) ==
    LET counted == acc.counted \cup
                       {potential_other_verts[n].idx : n \in DOMAIN potential_other_verts}
    IN  IF Len(potential_other_verts) = 0
        THEN [acc EXCEPT !.no_equiv = Append(@, self_v), !.counted = counted]
        ELSE IF Len(potential_other_verts) > Len(potential_self_verts)
        THEN [acc EXCEPT !.unfused = Append(@, [pos |-> self_v.pos,
                                                bw |-> self_v.bw,
                                                self_cands |-> potential_self_verts,
                                                other_cands |-> potential_other_verts]),
                         !.counted = counted]
        ELSE [acc EXCEPT !.counted = counted]

\* the loop over the vertices of one voxel of self (compare.py 204-226)
RECURSIVE VoxelVertsLoop(_, _, _, _, _, _, _)
VoxelVertsLoop(self_verts, other_verts, members, other_space, self_space, eps_sqr, acc) ==
    IF members = <<>> THEN acc
    ELSE VoxelVertsLoop(self_verts, other_verts, Tail(members), other_space, self_space,
                        eps_sqr,
                        ClassifyVert(acc, self_verts[Head(members)],
                                     PotentialVerts(self_verts[Head(members)], self_verts,
                                                    self_space, eps_sqr),
                                     PotentialVerts(self_verts[Head(members)], other_verts,
                                                    other_space, eps_sqr)))

\* the loop over self.voxels.items() from entry e on (compare.py 187-226).
\* other_voxels is other's dict as the reads of the earlier rounds left it; when
\* self and other are one object, aliased, it is self's dict too, and an
\* insertion into it makes the iterator of self.voxels raise RuntimeError at its
\* next step
RECURSIVE VoxelsLoop(_, _, _, _, _, _, _)
RECURSIVE VoxelsRound(_, _, _, _, _, _, _, _)
VoxelsRound(self, other_verts, other_voxels, aliased, e, eps_sqr, acc, block) ==
    LET self_voxels == IF aliased THEN other_voxels ELSE self.voxels
        touched == TouchVoxels(other_voxels, block)
    IN  IF aliased /\ Len(touched) # Len(other_voxels)
        THEN [raised |-> "RuntimeError", acc |-> acc, other_voxels |-> touched]
        ELSE VoxelsLoop(self, other_verts, touched, aliased, e + 1, eps_sqr,
                        \* the entries just inserted are empty: the search spaces
                        \* are those of the dicts as they were
                        VoxelVertsLoop(self.verts, other_verts, self_voxels[e].idxs,
                                       SearchSpace(other_voxels, block),
                                       SearchSpace(self_voxels, block), eps_sqr, acc))

VoxelsLoop(self, other_verts, other_voxels, aliased, e, eps_sqr, acc) ==
    LET self_voxels == IF aliased THEN other_voxels ELSE self.voxels
    IN  IF e > Len(self_voxels)
        THEN [raised |-> "none", acc |-> acc, other_voxels |-> other_voxels]
        ELSE VoxelsRound(self, other_verts, other_voxels, aliased, e, eps_sqr, acc,
                         NeighbourBlock(self_voxels[e].key))

\* the outcome whose last list starts at the second vertex of other
CheckOutcomeFromSecond(other, loop) ==
    IF loop.raised # "none"
    THEN [raised |-> loop.raised, has_no_equiv_in_other |-> <<>>,
          was_unfused_in_other |-> <<>>, other_vs_with_no_equiv_in_self |-> <<>>,
          other_voxels |-> loop.other_voxels]
    ELSE [raised |-> "none",
          has_no_equiv_in_other |-> loop.acc.no_equiv,
          was_unfused_in_other |-> loop.acc.unfused,
          other_vs_with_no_equiv_in_self |->
              LET uncounted == SelectSeq([i \in DOMAIN other.verts |-> i],
                                         LAMBDA i : i > 1 /\ i \notin loop.acc.counted)
              IN  [n \in DOMAIN uncounted |-> other.verts[uncounted[n]]],
          other_voxels |-> loop.other_voxels]

\* lines 228-234: the outcome of the call, given how the loop ended
CheckOutcome(other, loop) ==
    IF loop.raised # "none"
    THEN [raised |-> loop.raised, has_no_equiv_in_other |-> <<>>,
          was_unfused_in_other |-> <<>>, other_vs_with_no_equiv_in_self |-> <<>>,
          other_voxels |-> loop.other_voxels]
    ELSE [raised |-> "none",
          has_no_equiv_in_other |-> loop.acc.no_equiv,
          was_unfused_in_other |-> loop.acc.unfused,
          other_vs_with_no_equiv_in_self |->
              LET uncounted == SelectSeq([i \in DOMAIN other.verts |-> i],
                                         LAMBDA i : i \notin loop.acc.counted)
              IN  [n \in DOMAIN uncounted |-> other.verts[uncounted[n]]],
          other_voxels |-> loop.other_voxels]

\* FusedVertVoxelSet.check_one_to_one(self, other, pos_epsilon); aliased says that
\* other is the very object self.  The outcome: the exception raised ("none" if it
\* returned), the three returned lists, and other.voxels as the call left it
CheckOneToOne(self, other, aliased, pos_epsilon) ==
    IF ~(self.voxel_size = other.voxel_size /\ self.voxel_size > pos_epsilon)
    THEN [raised |-> "AssertionError", has_no_equiv_in_other |-> <<>>,
          was_unfused_in_other |-> <<>>, other_vs_with_no_equiv_in_self |-> <<>>,
          other_voxels |-> other.voxels]
    ELSE CheckOutcome(other,
                      VoxelsLoop(self, other.verts, other.voxels, aliased, 1,
                                 pos_epsilon * pos_epsilon,
                                 [no_equiv |-> <<>>, unfused |-> <<>>, counted |-> {}]))

\* the key of the entry of self.voxels that holds vertex i: the voxel_key of the
\* round of the loop at line 187 in which i is self_vert
VoxelKeyOf(self, i) ==
    self.voxels[CHOOSE e \in DOMAIN self.voxels :
                    \E n \in DOMAIN self.voxels[e].idxs : self.voxels[e].idxs[n] = i].key

\* lines 188-220 for the self vertex i: the candidates among the vertices of the
\* index searched, gathered from the block of voxels around i's voxel
GatherPotentialVerts(self, searched, i, pos_epsilon) ==
    PotentialVerts(self.verts[i], searched.verts,
                   SearchSpace(searched.voxels, NeighbourBlock(VoxelKeyOf(self, i))),
                   pos_epsilon * pos_epsilon)

-----------------------------------------------------------------------------
(* compare_same_layout_mesh_vertex_fusions *)

\* make_bone_indices_consistent: the one bone list of a node's skinned meshes
RelevantBones == <<"bone_a", "bone_b">>
RelevantBonesOf(node) == RelevantBones

\* rounded_bw of a fused vertex's first buffer slot (compare.py 323-329, 338-341)
RoundedBw(is_skinned, relevant_bones, v) ==
    IF is_skinned
    THEN <<IF v.bone_data.some
           THEN KeyTuple(BoneWeightPairs(relevant_bones, v.bone_data.val,
                                         v.weight_data.val, 100))
           ELSE nul_item>>
    ELSE <<IF v.bone_data.some THEN KeyTuple(RoundVec4(v.bone_data.val)) ELSE nul_item,
           IF v.weight_data.some THEN KeyTuple(RoundVec4(v.weight_data.val)) ELSE nul_item>>

\* find_fusion_output_vs: fused is the welding function's output, the first buffer
\* slot of every fused vertex in fused-index order
RECURSIVE AddFused(_, _, _, _)
AddFused(is_skinned, relevant_bones, all_verts, fused) ==
    IF fused = <<>> THEN all_verts
    ELSE LET v == Head(fused)
         IN  AddFused(is_skinned, relevant_bones,
                      FusedAdd(all_verts, v.pos,
                               IF v.normal.some THEN Some(SubSeq(v.normal.val, 1, 3)) ELSE None,
                               RoundedBw(is_skinned, relevant_bones, v)),
                      Tail(fused))

find_fusion_output_vs(is_skinned, relevant_bones, fused) ==
    AddFused(is_skinned, relevant_bones, FusedVertVoxelSetNew(DefaultVoxelSize), fused)

\* the verdict that overlooks the vertices of dst without an equivalent in src
FusionsVerdictTwoLists(src_fused_vs, dst_fused_vs, r, context) ==
    [reports |->
        IF r.has_no_equiv_in_other # <<>> \/ r.was_unfused_in_other # <<>>
        THEN <<Report("fatal", "fused vs don't match", "", context)>>
        ELSE IF Len(src_fused_vs.verts) # Len(dst_fused_vs.verts)
        THEN <<Report("recoverable", "fused vs don't match, but we don't know why",
                      "", context)>>
        ELSE <<>>,
     ret |-> ~(r.has_no_equiv_in_other # <<>> \/ r.was_unfused_in_other # <<>>),
     check |-> r,
     src_fused_vs |-> src_fused_vs,
     dst_fused_vs |-> [dst_fused_vs EXCEPT !.voxels = r.other_voxels]]

\* lines 355-377 on the outcome r of check_one_to_one: what the call reported
\* and returned, the outcome itself, and both indices as the call left them
FusionsVerdict(src_fused_vs, dst_fused_vs, r, context) ==
    [reports |->
        IF r.has_no_equiv_in_other # <<>> \/ r.was_unfused_in_other # <<>>
               \/ r.other_vs_with_no_equiv_in_self # <<>>
        THEN <<Report("fatal", "fused vs don't match", "", context)>>
        ELSE IF Len(src_fused_vs.verts) # Len(dst_fused_vs.verts)
        THEN <<Report("recoverable", "fused vs don't match, but we don't know why",
                      "", context)>>
        ELSE <<>>,
     ret |-> ~(r.has_no_equiv_in_other # <<>> \/ r.was_unfused_in_other # <<>>
                   \/ r.other_vs_with_no_equiv_in_self # <<>>),
     check |-> r,
     src_fused_vs |-> src_fused_vs,
     dst_fused_vs |-> [dst_fused_vs EXCEPT !.voxels = r.other_voxels]]

\* lines 353-354: the src index is checked against the dst index
CheckFusions(src_fused_vs, dst_fused_vs, context) ==
    FusionsVerdict(src_fused_vs, dst_fused_vs,
                   CheckOneToOne(src_fused_vs, dst_fused_vs, FALSE, DefaultPosEpsilon),
                   context)

\* compare_same_layout_mesh_vertex_fusions; src and dst are the welding function's
\* outputs for the two mesh lists
compare_same_layout_mesh_vertex_fusions(is_skinned, relevant_bones, src, dst, context) ==
    CheckFusions(find_fusion_output_vs(is_skinned, relevant_bones, src),
                 find_fusion_output_vs(is_skinned, relevant_bones, dst), context)

-----------------------------------------------------------------------------
(* compare_single_node_pair *)

\* NodeType, and the node classes it stands for
IsBone(n) == n.node_type = "MatrixTransform"
IsSkinnedObject(n) == n.node_type = "SkinnedMesh"

\* sum(fabs(s - r) for (s, r) in zip(src_f, dst_f)), in units of 1e-3
SumAbsDiff(src_f, dst_f) ==
    SumSeq([i \in 1..Min(Len(src_f), Len(dst_f)) |-> Abs(src_f[i] - dst_f[i])])

\* 0.05 in units of 1e-3
DriftThreshold == 50

\* compare_field
compare_field(src, dst, f, context) ==
    IF src[f] # dst[f]
    THEN <<Report("fatal", "field differs", f, context)>>
    ELSE <<>>

\* compare_vec_field with a drift of exactly 0.05 counted as fatal
compare_vec_field_inclusive(src, dst, f, context) ==
    LET src_f == RoundVec3(src[f])
        dst_f == RoundVec3(dst[f])
    IN  IF src_f # dst_f
        THEN IF SumAbsDiff(src_f, dst_f) >= DriftThreshold
             THEN <<Report("fatal", "vector differs", f, context)>>
             ELSE <<Report("recoverable", "vector differs slightly", f, context)>>
        ELSE <<>>

\* compare_vec_field
compare_vec_field(src, dst, f, context) ==
    LET src_f == RoundVec3(src[f])
        dst_f == RoundVec3(dst[f])
    IN  IF src_f # dst_f
        THEN IF SumAbsDiff(src_f, dst_f) > DriftThreshold
             THEN <<Report("fatal", "vector differs", f, context)>>
             ELSE <<Report("recoverable", "vector differs slightly", f, context)>>
        ELSE <<>>

\* compare_mat_field
compare_mat_field(src, dst, f, context) ==
    LET src_f == [r \in DOMAIN src[f] |-> RoundVec3(src[f][r])]
        dst_f == [r \in DOMAIN dst[f] |-> RoundVec3(dst[f][r])]
    IN  IF src_f # dst_f
        THEN IF SumAbsDiff(Concat(src_f), Concat(dst_f)) > DriftThreshold
             THEN <<Report("fatal", "matrix differs", f, context)>>
             ELSE <<Report("recoverable", "matrix differs slightly", f, context)>>
        ELSE <<>>

\* the attribute sets of a mesh list, each once, in first-seen order
RECURSIVE UniqueAttrSets(_, _)
UniqueAttrSets(mesh_list, seen) ==
    IF mesh_list = <<>> THEN seen
    ELSE UniqueAttrSets(Tail(mesh_list),
                        IF Head(mesh_list).attribute_set \in Range(seen) THEN seen
                        ELSE Append(seen, Head(mesh_list).attribute_set))

MeshesOfAttr(mesh_list, attr) == SelectSeq(mesh_list, LAMBDA m : m.attribute_set = attr)

PrependGroup(r, rest) ==
    [reports |-> r.reports \o rest.reports, rets |-> <<r.ret>> \o rest.rets]

\* the loop over unique_attr_sets (compare.py 498-508): the reports made and
\* the value each compare_same_layout_meshes call returned
RECURSIVE CompareAttrGroups(_, _, _, _, _)
CompareAttrGroups(is_skinned, src, dst, attrs, context) ==
    IF attrs = <<>> THEN [reports |-> <<>>, rets |-> <<>>]
    ELSE PrependGroup(compare_same_layout_meshes(is_skinned,
                                                 MeshesOfAttr(src.mesh_list, Head(attrs)),
                                                 MeshesOfAttr(dst.mesh_list, Head(attrs)),
                                                 context \o <<"attr set", Head(attrs)>>),
                      CompareAttrGroups(is_skinned, src, dst, Tail(attrs), context))

\* lines 485-487: the sets of attribute sets of the two mesh lists
CompareAttrSets(src, dst, context) ==
    IF {m.attribute_set : m \in Range(src.mesh_list)}
           # {m.attribute_set : m \in Range(dst.mesh_list)}
    THEN <<Report("fatal", "different sets of attribute sets", "", context)>>
    ELSE <<>>

\* lines 497-512: what the vertex checks of a node pair reported, and the
\* mesh-group calls made, in order
VertexChecks(groups, fusions, context) ==
    [reports |-> groups.reports \o fusions.reports
                 \o (IF (\A i \in DOMAIN groups.rets : groups.rets[i]) /\ fusions.ret
                     THEN <<Report("info", "meshes are functionally identical", "", context)>>
                     ELSE <<>>),
     mesh_calls |-> [i \in DOMAIN groups.rets |-> "compare_same_layout_meshes"]
                    \o <<"compare_same_layout_mesh_vertex_fusions">>]

\* the mesh checks of a node pair of one type that is not a bone (compare.py
\* 474-512)
CompareNodeMeshes(is_skinned, with_vertices, src, dst, context) ==
    IF with_vertices
    THEN VertexChecks(
             CompareAttrGroups(is_skinned, src, dst, UniqueAttrSets(src.mesh_list, <<>>),
                               context),
             compare_same_layout_mesh_vertex_fusions(is_skinned, RelevantBonesOf(src),
                                                     src.weld, dst.weld, context),
             context)
    ELSE [reports |-> <<>>, mesh_calls |-> <<>>]

\* lines 454-463: the fields of every node
CompareNodeFields(src, dst, context) ==
    compare_field(src, dst, "node_type", context)
    \o compare_vec_field(src, dst, "pos", context)
    \o compare_vec_field(src, dst, "rot", context)
    \o compare_vec_field(src, dst, "scale", context)
    \o compare_vec_field(src, dst, "world_pos", context)
    \o compare_vec_field(src, dst, "anim_axis", context)
    \o compare_field(src, dst, "flags", context)
    \o (IF ~IsSkinnedObject(src) THEN compare_mat_field(src, dst, "matrix", context)
        ELSE <<>>)

NodePairOutcome(fields, attr_sets, meshes) ==
    [reports |-> fields \o attr_sets \o meshes.reports, mesh_calls |-> meshes.mesh_calls]

\* compare_single_node_pair: what it reported, and the mesh-group calls it made
compare_single_node_pair(is_skinned, with_vertices, src, dst, context) ==
    IF src.node_type = dst.node_type /\ ~IsBone(src)
    THEN NodePairOutcome(CompareNodeFields(src, dst, context),
                         CompareAttrSets(src, dst, context),
                         CompareNodeMeshes(is_skinned, with_vertices, src, dst, context))
    ELSE [reports |-> CompareNodeFields(src, dst, context), mesh_calls |-> <<>>]

-----------------------------------------------------------------------------
(* recursive_compare_node_lists *)

NodeNames(nodes) == [i \in DOMAIN nodes |-> nodes[i].name]

\* the checks without the comparison of the name lists: only the sets are compared
NodeListChecksSetsOnly(src, dst, context) ==
    IF Range(NodeNames(src)) # Range(NodeNames(dst))
    THEN <<Report("fatal", "different sets of children", "", context)>>
    ELSE <<>>

\* the checks at the head of recursive_compare_node_lists (compare.py 517-526)
NodeListChecks(src, dst, context) ==
    LET src_names_unordered == Range(NodeNames(src))
        dst_names_unordered == Range(NodeNames(dst))
    IN  (IF src_names_unordered # dst_names_unordered
         THEN <<Report("fatal", "different sets of children", "", context)>>
         ELSE <<>>)
        \o (IF NodeNames(src) # NodeNames(dst)
            THEN <<Report("fatal", "children in different order", "", context)>>
            ELSE <<>>)

\* the number of pairs zip(src, dst) yields
ZipLen(src, dst) == Min(Len(src), Len(dst))

\* the frame of a call recursive_compare_node_lists(.., src, dst, .., context);
\* path holds the child indices from the roots down to these lists
Frame(src, dst, context, path) ==
    [src |-> src, dst |-> dst, context |-> context, path |-> path,
     stage |-> "checks", i |-> 1]

-----------------------------------------------------------------------------
(* Inputs: vertex records, mesh groups, welded vertices *)

\* the most vertex slots a mesh group references, the most fused vertices a side has
MaxMeshVerts == 3
MaxFused == 2

\* one slot of a vertex buffer; the channels not given are absent
RawVertex(pos, normal, bone_data, weight_data) ==
    [pos |-> pos, normal |-> normal, tangent |-> None, col0 |-> None, col1 |-> None,
     unk |-> None, uvs |-> <<>>, bone_data |-> bone_data, weight_data |-> weight_data]


\* bone indices 0 and 1, weights (1, 0) and (0.5, 0.5)
BonesAB == Some(<<0, 1000000>>)
WeightsA == Some(<<1000000, 0>>)
WeightsAB == Some(<<500000, 500000>>)

\* normals: unit x; 25 and 50 degrees off x (each within 0.9 of its neighbour
\* only); the zero vector
NormalX == Some(<<1000000, 0, 0, 0>>)
NormalX25 == Some(<<906000, 423000, 0, 0>>)
NormalX50 == Some(<<643000, 766000, 0, 0>>)
NormalZero == Some(<<0, 0, 0, 0>>)

\* the vertex slots mesh groups are drawn from: at the origin with each normal,
\* 0.003 off the origin (the same key), and 0.2 off it (another key)
MeshVertexMenu ==
    << RawVertex(<<0, 0, 0>>, NormalX, BonesAB, WeightsA),
       RawVertex(<<0, 0, 0>>, NormalX25, BonesAB, WeightsA),
       RawVertex(<<0, 0, 0>>, NormalX50, BonesAB, WeightsA),
       RawVertex(<<0, 0, 0>>, NormalZero, BonesAB, WeightsA),
       RawVertex(<<0, 0, 0>>, None, BonesAB, WeightsA),
       RawVertex(<<3000, 0, 0>>, NormalX, BonesAB, WeightsA),
       RawVertex(<<200000, 0, 0>>, NormalX, BonesAB, WeightsA) >>

\* the nondecreasing index sequences of length <= n over 1..m: one per multiset
SortedIndexSeqs(m, n) ==
    UNION {{s \in [1..k -> 1..m] : \A i \in 1..(k - 1) : s[i] <= s[i + 1]} : k \in 0..n}

\* every index sequence of length <= n over 1..m
IndexSeqs(m, n) == UNION {[1..k -> 1..m] : k \in 0..n}

\* a mesh group is a multiset of slots: the order of the slots of a buffer does
\* not reach the VertSet, so each multiset is drawn once, in menu order.  A buffer
\* has the normal channel for all its slots or for none
MeshGroups ==
    {g \in {[i \in DOMAIN s |-> MeshVertexMenu[s[i]]] :
                s \in SortedIndexSeqs(Len(MeshVertexMenu), MaxMeshVerts)} :
        \A i \in DOMAIN g : g[i].normal.some = g[1].normal.some}

\* the GMDMesh holding slots vs, all referenced; the strip revisits slot 0
MeshOf(attribute_set, vs) ==
    [attribute_set |-> attribute_set,
     vertices_data |-> vs,
     triangle_strip_noreset_indices |->
         [i \in 1..Len(vs) |-> i - 1] \o (IF vs = <<>> THEN <<>> ELSE <<0>>),
     relevant_bones |-> RelevantBones]

\* the fused vertices a welded side is drawn from, all of one buffer layout: P;
\* P + e with e = 5e-6, in the next voxel; P with other bone weights; two vertices
\* 8.5e-6 apart on either side of the origin, far from P
WeldMenu ==
    << RawVertex(<<98, 0, 0>>, NormalX, BonesAB, WeightsA),
       RawVertex(<<103, 0, 0>>, NormalX, BonesAB, WeightsA),
       RawVertex(<<98, 0, 0>>, NormalX, BonesAB, WeightsAB),
       RawVertex(<<-3, -4, 0>>, NormalX, BonesAB, WeightsA),
       RawVertex(<<3, 2, 0>>, NormalX, BonesAB, WeightsA) >>

Welds ==
    {[i \in DOMAIN s |-> WeldMenu[s[i]]] : s \in IndexSeqs(Len(WeldMenu), MaxFused)}

\* the fused vertices of the neighbour search: P and P + e on either side of a
\* voxel boundary, e = 5e-6; P with other bone weights; and two vertices 7.8e-6
\* apart of negative coordinates, across a voxel boundary in x and one in y
VoxelMenu ==
    << RawVertex(<<98, 0, 0>>, NormalX, BonesAB, WeightsA),
       RawVertex(<<103, 0, 0>>, NormalX, BonesAB, WeightsA),
       RawVertex(<<98, 0, 0>>, NormalX, BonesAB, WeightsAB),
       RawVertex(<<-98, -203, 0>>, NormalX, BonesAB, WeightsA),
       RawVertex(<<-103, -197, 0>>, NormalX, BonesAB, WeightsA) >>

VoxelWelds ==
    {[i \in DOMAIN s |-> VoxelMenu[s[i]]] : s \in IndexSeqs(Len(VoxelMenu), MaxFused)}

\* a node with the given name, type and children, every other field at rest,
\* and no meshes
NodeOf(name, node_type, children) ==
    [name |-> name, node_type |-> node_type,
     pos |-> <<0, 0, 0>>, rot |-> <<0, 0, 0, 1000000>>, scale |-> <<1000000, 1000000, 1000000>>,
     world_pos |-> <<0, 0, 0>>, anim_axis |-> <<0, 0, 0>>, flags |-> <<0, 0, 0, 0>>,
     matrix |-> <<<<1000000, 0, 0>>, <<0, 1000000, 0>>>>,
     children |-> children, mesh_list |-> <<>>, weld |-> <<>>]

\* the most nodes a scene holds
MaxNodes == 2

\* the name and type of a node: two names, and two types under one of them
NodeLabels ==
    {<<"a", "MatrixTransform">>, <<"a", "UnskinnedMesh">>, <<"b", "MatrixTransform">>}

\* the ordered forests of exactly n labelled nodes
RECURSIVE ForestsOfSize(_)
ForestsOfSize(n) ==
    IF n = 0 THEN {<<>>}
    ELSE UNION {{<<NodeOf(l[1], l[2], c)>> \o rest :
                    l \in NodeLabels, c \in ForestsOfSize(k - 1), rest \in ForestsOfSize(n - k)} :
                k \in 1..n}

Forests == UNION {ForestsOfSize(n) : n \in 0..MaxNodes}

\* offsets of a continuous field from its value at rest: none; 0.0004, which
\* rounds away; 0.0006; 0.025 twice, 0.05 in sum; 0.025 and 0.026; 1.0
FieldOffsets ==
    {<<0, 0, 0>>, <<400, 0, 0>>, <<600, 0, 0>>, <<25000, 25000, 0>>, <<25000, 26000, 0>>,
     <<1000000, 0, 0>>}

VecFields == {"pos", "rot", "scale", "world_pos", "anim_axis"}

\* v with the offset added to its first components
Offset(v, d) == [i \in DOMAIN v |-> v[i] + (IF i <= Len(d) THEN d[i] ELSE 0)]

\* a childless node whose continuous field f is off its value at rest by d
NodeWithField(node_type, f, d) ==
    LET n == NodeOf("a", node_type, <<>>)
    IN  IF f = "matrix"
        THEN [n EXCEPT !.matrix = <<Offset(n.matrix[1], d), n.matrix[2]>>]
        ELSE [n EXCEPT ![f] = Offset(n[f], d)]

NodeTypes == {"MatrixTransform", "SkinnedMesh", "UnskinnedMesh"}

-----------------------------------------------------------------------------
(* State machines *)

NoCheck == [raised |-> "none", has_no_equiv_in_other |-> <<>>,
            was_unfused_in_other |-> <<>>, other_vs_with_no_equiv_in_self |-> <<>>,
            other_voxels |-> <<>>]

IdleMesh ==
    /\ evaluated = <<>>
    /\ srcMesh = <<>> /\ dstMesh = <<>>
    /\ srcVertices = VertSetNew /\ dstVertices = VertSetNew

IdleFusion ==
    /\ srcWeld = <<>> /\ dstWeld = <<>>
    /\ srcFused = FusedVertVoxelSetNew(DefaultVoxelSize)
    /\ dstFused = FusedVertVoxelSetNew(DefaultVoxelSize)
    /\ oneToOne = NoCheck

IdleTree ==
    /\ skinned = FALSE /\ vertices = FALSE
    /\ srcRoots = <<>> /\ dstRoots = <<>>
    /\ stack = <<>> /\ calls = <<>>

\* a src and a dst mesh group of one attribute set await compare_same_layout_meshes
InitMesh ==
    /\ pc = "meshes"
    /\ reports = <<>> /\ ret = "none"
    /\ evaluated = <<>>
    /\ srcMesh \in MeshGroups /\ dstMesh \in MeshGroups
    /\ srcVertices = VertSetNew /\ dstVertices = VertSetNew
    /\ IdleFusion /\ IdleTree

\* compare_same_layout_meshes(skinned, [src mesh], [dst mesh], error, context)
CompareMeshes ==
    /\ pc = "meshes"
    /\ \E is_skinned \in BOOLEAN :
         \E r \in {compare_same_layout_meshes(is_skinned, <<MeshOf("attr", srcMesh)>>,
                                             <<MeshOf("attr", dstMesh)>>, <<>>)} :
             /\ skinned' = is_skinned
             /\ reports' = reports \o r.reports
             /\ ret' = r.ret
             /\ evaluated' = r.evaluated
             /\ srcVertices' = r.src_vertices
             /\ dstVertices' = r.dst_vertices
    /\ pc' = "meshes_compared"
    /\ UNCHANGED <<srcMesh, dstMesh, vertices, srcRoots, dstRoots, stack, calls>>
    /\ UNCHANGED fusionVars

NextMesh == CompareMeshes

SpecMesh == InitMesh /\ [][NextMesh]_vars

\* the welded vertices of src and dst await the fusion comparison
InitFusion ==
    /\ pc = "fusions"
    /\ reports = <<>> /\ ret = "none"
    /\ srcWeld \in Welds /\ dstWeld \in Welds
    /\ srcFused = FusedVertVoxelSetNew(DefaultVoxelSize)
    /\ dstFused = FusedVertVoxelSetNew(DefaultVoxelSize)
    /\ oneToOne = NoCheck
    /\ IdleMesh /\ IdleTree

\* compare_same_layout_mesh_vertex_fusions(skinned, src, dst, error, context)
CompareFusions ==
    /\ pc = "fusions"
    /\ \E is_skinned \in BOOLEAN :
         \E r \in {compare_same_layout_mesh_vertex_fusions(is_skinned, RelevantBones,
                                                          srcWeld, dstWeld, <<>>)} :
             /\ skinned' = is_skinned
             /\ reports' = reports \o r.reports
             /\ ret' = r.ret
             /\ oneToOne' = r.check
             /\ srcFused' = r.src_fused_vs
             /\ dstFused' = r.dst_fused_vs
    /\ pc' = "fusions_compared"
    /\ UNCHANGED <<srcWeld, dstWeld, vertices, srcRoots, dstRoots, stack, calls>>
    /\ UNCHANGED meshVars

\* S.check_one_to_one(S): the index of the src side checked against itself
CheckSelfOneToOne ==
    /\ pc = "fusions"
    /\ \E is_skinned \in BOOLEAN :
         \E S \in {find_fusion_output_vs(is_skinned, RelevantBones, srcWeld)} :
         \E r \in {CheckOneToOne(S, S, TRUE, DefaultPosEpsilon)} :
             /\ skinned' = is_skinned
             /\ oneToOne' = r
             /\ srcFused' = [S EXCEPT !.voxels = r.other_voxels]
    /\ pc' = "self_checked"
    /\ UNCHANGED <<reports, ret, srcWeld, dstWeld, dstFused, vertices, srcRoots, dstRoots,
                   stack, calls>>
    /\ UNCHANGED meshVars

NextFusion == CompareFusions \/ CheckSelfOneToOne

SpecFusion == InitFusion /\ [][NextFusion]_vars

\* two mesh groups whose VertSets A and B are to be compared
InitVertSetPair ==
    /\ pc = "vertsets"
    /\ reports = <<>> /\ ret = "none"
    /\ evaluated = <<>>
    /\ srcMesh \in MeshGroups /\ dstMesh \in MeshGroups
    /\ srcVertices = VertSetNew /\ dstVertices = VertSetNew
    /\ IdleFusion /\ IdleTree

\* A.difference(B) for the VertSets A and B of the src and the dst group
TakeDifference ==
    /\ pc = "vertsets"
    /\ \E is_skinned \in BOOLEAN :
         \E A \in {UniqueVertsOf(is_skinned, <<MeshOf("attr", srcMesh)>>)} :
         \E B \in {UniqueVertsOf(is_skinned, <<MeshOf("attr", dstMesh)>>)} :
             /\ skinned' = is_skinned
             /\ srcVertices' = A
             /\ dstVertices' = B
             /\ ret' = [difference |-> Difference(A, B)]
    /\ evaluated' = <<"difference">>
    /\ pc' = "differenced"
    /\ UNCHANGED <<reports, srcMesh, dstMesh, vertices, srcRoots, dstRoots, stack, calls>>
    /\ UNCHANGED fusionVars

\* every fingerprint a VertSet holds
Fingerprints(vs) == UNION {vs.verts[k] : k \in VertSetKeys(vs)}

\* x.approx_eq(y) for every two of the given fingerprints
ApproxEqTable(fps) == [p \in fps \X fps |-> ApproxEq(p[1], p[2])]

\* compare_same_layout_meshes(skinned, [src mesh], [dst mesh], ...) and then
\* compare_same_layout_meshes(skinned, [dst mesh], [src mesh], ...), and
\* x.approx_eq(y) for the fingerprints of both groups
CompareBothWays ==
    /\ pc = "vertsets"
    /\ \E is_skinned \in BOOLEAN :
         \E f \in {compare_same_layout_meshes(is_skinned, <<MeshOf("attr", srcMesh)>>,
                                             <<MeshOf("attr", dstMesh)>>, <<"forward">>)} :
         \E b \in {compare_same_layout_meshes(is_skinned, <<MeshOf("attr", dstMesh)>>,
                                             <<MeshOf("attr", srcMesh)>>, <<"backward">>)} :
             /\ skinned' = is_skinned
             /\ reports' = reports \o f.reports \o b.reports
             /\ srcVertices' = f.src_vertices
             /\ dstVertices' = f.dst_vertices
             /\ evaluated' = f.evaluated \o b.evaluated
             /\ ret' = [forward |-> f.ret, backward |-> b.ret,
                        approx_eq |-> ApproxEqTable(Fingerprints(f.src_vertices)
                                                       \cup Fingerprints(f.dst_vertices))]
    /\ pc' = "both_compared"
    /\ UNCHANGED <<srcMesh, dstMesh, vertices, srcRoots, dstRoots, stack, calls>>
    /\ UNCHANGED fusionVars

NextDifference == TakeDifference

SpecDifference == InitVertSetPair /\ [][NextDifference]_vars

NextBothWays == CompareBothWays

SpecBothWays == InitVertSetPair /\ [][NextBothWays]_vars

\* the welded vertices of src and dst await the neighbour search
InitVoxel ==
    /\ pc = "voxels"
    /\ reports = <<>> /\ ret = "none"
    /\ srcWeld \in VoxelWelds /\ dstWeld \in VoxelWelds
    /\ srcFused = FusedVertVoxelSetNew(DefaultVoxelSize)
    /\ dstFused = FusedVertVoxelSetNew(DefaultVoxelSize)
    /\ oneToOne = NoCheck
    /\ IdleMesh /\ IdleTree

\* the round of check_one_to_one's loops for one self vertex, up to line 220:
\* its candidates in other and in self
GatherCandidates ==
    /\ pc = "voxels"
    /\ \E is_skinned \in BOOLEAN :
         \E S \in {find_fusion_output_vs(is_skinned, RelevantBones, srcWeld)} :
         \E D \in {find_fusion_output_vs(is_skinned, RelevantBones, dstWeld)} :
         \E i \in DOMAIN srcWeld :
             /\ skinned' = is_skinned
             /\ srcFused' = S
             /\ dstFused' = D
             /\ ret' = [self_vert |-> i,
                        potential_other_verts |->
                            GatherPotentialVerts(S, D, i, DefaultPosEpsilon),
                        potential_self_verts |->
                            GatherPotentialVerts(S, S, i, DefaultPosEpsilon)]
    /\ pc' = "gathered"
    /\ UNCHANGED <<reports, srcWeld, dstWeld, oneToOne, vertices, srcRoots, dstRoots,
                   stack, calls>>
    /\ UNCHANGED meshVars

NextVoxel == GatherCandidates

SpecVoxel == InitVoxel /\ [][NextVoxel]_vars

\* a mesh group whose VertSet is to be compared with itself, and a second
\* group whose first slot gives the other fingerprint of an approx_eq call
InitVertSet ==
    /\ pc = "vertset"
    /\ reports = <<>> /\ ret = "none"
    /\ evaluated = <<>>
    /\ srcMesh \in MeshGroups
    /\ dstMesh \in {g \in MeshGroups : Len(g) = 1}
    /\ srcVertices = VertSetNew /\ dstVertices = VertSetNew
    /\ IdleFusion /\ IdleTree

\* S.exact_difference(S) and S.difference(S) for the VertSet S of the src group
SelfDifference ==
    /\ pc = "vertset"
    /\ \E is_skinned \in BOOLEAN :
         \E S \in {UniqueVertsOf(is_skinned, <<MeshOf("attr", srcMesh)>>)} :
             /\ skinned' = is_skinned
             /\ srcVertices' = S
             /\ ret' = [exact_difference |-> ExactDifference(S, S),
                        difference |-> Difference(S, S)]
    /\ evaluated' = <<"exact_difference", "difference">>
    /\ pc' = "self_differenced"
    /\ UNCHANGED <<reports, srcMesh, dstMesh, dstVertices, vertices, srcRoots, dstRoots,
                   stack, calls>>
    /\ UNCHANGED fusionVars

\* x.approx_eq(y) for the fingerprints of the first slots of the two groups
CheckApproxEq ==
    /\ pc = "vertset"
    /\ srcMesh # <<>>
    /\ \E x \in {VertApproxDataNew(srcMesh[1].normal, srcMesh[1].tangent)} :
         \E y \in {VertApproxDataNew(dstMesh[1].normal, dstMesh[1].tangent)} :
             ret' = [self |-> x, other |-> y, approx_eq |-> ApproxEq(x, y)]
    /\ evaluated' = <<"approx_eq">>
    /\ pc' = "approx_compared"
    /\ UNCHANGED <<reports, srcMesh, dstMesh, srcVertices, dstVertices, skinned, vertices,
                   srcRoots, dstRoots, stack, calls>>
    /\ UNCHANGED fusionVars

NextVertSet == SelfDifference \/ CheckApproxEq

SpecVertSet == InitVertSet /\ [][NextVertSet]_vars

\* the roots of two scenes await recursive_compare_node_lists
InitTree ==
    /\ pc = "comparing"
    /\ reports = <<>> /\ ret = "none"
    /\ skinned = FALSE
    /\ vertices \in BOOLEAN
    /\ srcRoots \in Forests /\ dstRoots \in Forests
    /\ stack = <<Frame(srcRoots, dstRoots, <<>>, <<>>)>>
    /\ calls = <<>>
    /\ IdleMesh /\ IdleFusion

\* two single nodes that differ in at most one continuous field each
InitNode ==
    /\ pc = "comparing"
    /\ reports = <<>> /\ ret = "none"
    /\ skinned = FALSE
    /\ vertices \in BOOLEAN
    /\ \E f \in VecFields \cup {"matrix"} :
       \E ts \in NodeTypes, td \in NodeTypes, ds \in FieldOffsets, dd \in FieldOffsets :
          /\ srcRoots = <<NodeWithField(ts, f, ds)>>
          /\ dstRoots = <<NodeWithField(td, f, dd)>>
    /\ stack = <<Frame(srcRoots, dstRoots, <<>>, <<>>)>>
    /\ calls = <<>>
    /\ IdleMesh /\ IdleFusion

\* the meshes a mesh-bearing node is drawn from: attribute set A or B over one
\* slot, at the origin with normal x or 50 degrees off it, or 0.2 off the origin
NodeMeshMenu ==
    {MeshOf(a, <<MeshVertexMenu[n]>>) : a \in {"A", "B"}, n \in {1, 3, 7}}

\* the mesh lists of a node: none, one or two meshes
NodeMeshLists ==
    {<<>>} \cup {<<m>> : m \in NodeMeshMenu}
           \cup {<<m, n>> : m \in NodeMeshMenu, n \in NodeMeshMenu}

\* the welding function is external: its output for a mesh list is an input
\* here, one fused vertex or two close ones of one signature
NodeWelds == {<<WeldMenu[4]>>, <<WeldMenu[4], WeldMenu[5]>>}

\* a node with the given meshes and welding output
MeshNode(mesh_list, weld) ==
    [NodeOf("a", "UnskinnedMesh", <<>>) EXCEPT !.mesh_list = mesh_list, !.weld = weld]

\* two unskinned mesh objects of one name, each with its own meshes
InitNodeMesh ==
    /\ pc = "comparing"
    /\ reports = <<>> /\ ret = "none"
    /\ skinned = FALSE
    /\ vertices \in BOOLEAN
    /\ \E sm \in NodeMeshLists, dm \in NodeMeshLists, sw \in NodeWelds, dw \in NodeWelds :
          /\ srcRoots = <<MeshNode(sm, sw)>>
          /\ dstRoots = <<MeshNode(dm, dw)>>
    /\ stack = <<Frame(srcRoots, dstRoots, <<>>, <<>>)>>
    /\ calls = <<>>
    /\ IdleMesh /\ IdleFusion

Top == stack[Len(stack)]

\* recursive_compare_node_lists, lines 517-526: the set and the order of the names
CheckNodeLists ==
    /\ pc = "comparing"
    /\ Top.stage = "checks"
    /\ reports' = reports \o NodeListChecks(Top.src, Top.dst, Top.context)
    /\ stack' = [stack EXCEPT ![Len(stack)].stage = "pairs"]
    /\ UNCHANGED <<pc, ret, skinned, vertices, srcRoots, dstRoots, calls>>
    /\ UNCHANGED meshVars
    /\ UNCHANGED fusionVars

\* the round of a loop that gives up once a fatal report was made: the pair is
\* compared, and the call descends only if no fatal report exists
CompareChildPairStoppingOnFatal ==
    /\ pc = "comparing"
    /\ Top.stage = "pairs"
    /\ Top.i <= ZipLen(Top.src, Top.dst)
    /\ \E r \in {compare_single_node_pair(skinned, vertices, Top.src[Top.i], Top.dst[Top.i],
                                          Top.context \o <<Top.src[Top.i].name>>)} :
         /\ reports' = reports \o r.reports
         /\ calls' = Append(calls, [path |-> Top.path \o <<Top.i>>,
                                    mesh_calls |-> r.mesh_calls])
         /\ stack' = IF NumBySeverity(reports', "fatal") > 0
                     THEN <<>>
                     ELSE Append([stack EXCEPT ![Len(stack)].i = Top.i + 1],
                                 Frame(Top.src[Top.i].children, Top.dst[Top.i].children,
                                       Top.context \o <<Top.src[Top.i].name>>,
                                       Top.path \o <<Top.i>>))
         /\ pc' = IF NumBySeverity(reports', "fatal") > 0 THEN "done" ELSE "comparing"
    /\ UNCHANGED <<ret, skinned, vertices, srcRoots, dstRoots>>
    /\ UNCHANGED meshVars
    /\ UNCHANGED fusionVars

\* one round of the loop over zip(src, dst), lines 528-531: the node pair is
\* compared, then the call recurses into the pair's children
CompareChildPair ==
    /\ pc = "comparing"
    /\ Top.stage = "pairs"
    /\ Top.i <= ZipLen(Top.src, Top.dst)
    /\ LET child_src == Top.src[Top.i]
           child_dst == Top.dst[Top.i]
           child_context == Top.context \o <<child_src.name>>
           child_path == Top.path \o <<Top.i>>
       IN  \E r \in {compare_single_node_pair(skinned, vertices, child_src, child_dst,
                                              child_context)} :
             /\ reports' = reports \o r.reports
             /\ calls' = Append(calls, [path |-> child_path, mesh_calls |-> r.mesh_calls])
             /\ stack' = Append([stack EXCEPT ![Len(stack)].i = Top.i + 1],
                                Frame(child_src.children, child_dst.children,
                                      child_context, child_path))
    /\ UNCHANGED <<pc, ret, skinned, vertices, srcRoots, dstRoots>>
    /\ UNCHANGED meshVars
    /\ UNCHANGED fusionVars

\* the loop is over: the call returns to its caller
ReturnNodeLists ==
    /\ pc = "comparing"
    /\ Top.stage = "pairs"
    /\ Top.i > ZipLen(Top.src, Top.dst)
    /\ stack' = SubSeq(stack, 1, Len(stack) - 1)
    /\ pc' = IF Len(stack) = 1 THEN "done" ELSE "comparing"
    /\ UNCHANGED <<reports, ret, skinned, vertices, srcRoots, dstRoots, calls>>
    /\ UNCHANGED meshVars
    /\ UNCHANGED fusionVars

NextTree == CheckNodeLists \/ CompareChildPair \/ ReturnNodeLists

SpecTree == InitTree /\ [][NextTree]_vars

\* the comparison is one synchronous call: it keeps running until it returns
SpecTreeFair == SpecTree /\ WF_vars(NextTree)

SpecNode == InitNode /\ [][NextTree]_vars

SpecNodeMesh == InitNodeMesh /\ [][NextTree]_vars

Init == InitMesh \/ InitVertSet \/ InitVertSetPair \/ InitFusion \/ InitVoxel \/ InitTree \/ InitNode
            \/ InitNodeMesh

Next == CompareMeshes \/ SelfDifference \/ CheckApproxEq
            \/ TakeDifference \/ CompareBothWays
            \/ CompareFusions \/ CheckSelfOneToOne \/ GatherCandidates
            \/ CheckNodeLists \/ CompareChildPair \/ ReturnNodeLists

Spec == Init /\ [][Next]_vars

-----------------------------------------------------------------------------
(* Properties of recursive_compare_node_lists *)

\* the reports a step appends hold a fatal one
StepReportsFatal ==
    \E k \in (Len(reports) + 1)..Len(reports') : reports'[k].sev = "fatal"

\* a name of the src list is absent from the dst list
ChildMissingInDst(src, dst) ==
    \E i \in DOMAIN src : \A j \in DOMAIN dst : dst[j].name # src[i].name

\* the same set of names on both sides, the lists of names not the same
SameNamesOtherOrder(src, dst) ==
    /\ {src[i].name : i \in DOMAIN src} = {dst[j].name : j \in DOMAIN dst}
    /\ [i \in DOMAIN src |-> src[i].name] # [j \in DOMAIN dst |-> dst[j].name]

\* C1: recursive_compare_node_lists makes a fatal report (a) when a child name of
\* the src list is absent from the dst list, (b) when both lists hold the same
\* names in a different order, and (c) when two positionally paired children of
\* one name differ in node_type: the step that checks the lists, respectively
\* the step that compares the pair, appends at least one fatal report.
C1_StructuralMismatchIsFatal ==
    [][pc = "comparing" =>
         /\ (/\ Top.stage = "checks"
             /\ \/ ChildMissingInDst(Top.src, Top.dst)
                \/ SameNamesOtherOrder(Top.src, Top.dst))
                => StepReportsFatal
         /\ (/\ Top.stage = "pairs"
             /\ Top.i <= Len(Top.src) /\ Top.i <= Len(Top.dst)
             /\ Top.src[Top.i].name = Top.dst[Top.i].name
             /\ Top.src[Top.i].node_type # Top.dst[Top.i].node_type)
                => StepReportsFatal]_vars

\* a finished comparison whose roots show case (a) and case (c): src holds a
\* name dst lacks, and the first pair has one name and two node types
C1_Witness ==
    /\ pc = "done"
    /\ ChildMissingInDst(srcRoots, dstRoots)
    /\ Len(dstRoots) = 1
    /\ srcRoots[1].name = dstRoots[1].name
    /\ srcRoots[1].node_type # dstRoots[1].node_type
    /\ \E k \in DOMAIN reports :
          reports[k].sev = "fatal" /\ reports[k].what = "different sets of children"
    /\ \E k \in DOMAIN reports :
          reports[k].sev = "fatal" /\ reports[k].field = "node_type"

\* the paths of the positionally paired nodes of two forests, at every level
RECURSIVE PairedPaths(_, _)
PairedPaths(src, dst) ==
    UNION {{<<i>>} \cup {<<i>> \o p : p \in PairedPaths(src[i].children, dst[i].children)} :
              i \in {i \in DOMAIN src : i \in DOMAIN dst}}

\* compare_single_node_pair was invoked exactly once for each paired node
EachPairComparedOnce ==
    /\ {calls[k].path : k \in DOMAIN calls} = PairedPaths(srcRoots, dstRoots)
    /\ \A k \in DOMAIN calls : \A l \in DOMAIN calls : calls[k].path = calls[l].path => k = l

\* C10: with a reporter that never aborts, recursive_compare_node_lists over two
\* finite forests terminates, and whatever was reported on the way, by then
\* compare_single_node_pair has been invoked exactly once for every positionally
\* paired node at every level, the children of every pair included.
C10_TerminatesHavingComparedEveryPair ==
    <>(pc = "done" /\ stack = <<>> /\ EachPairComparedOnce)

\* a finished comparison that reported a fatal mismatch of the first root pair
\* and still compared that pair's children
C10_Witness ==
    /\ pc = "done"
    /\ Len(calls) = 2
    /\ calls[1].path = <<1>> /\ calls[2].path = <<1, 1>>
    /\ srcRoots[1].node_type # dstRoots[1].node_type
    /\ reports # <<>> /\ reports[1].sev = "fatal"

-----------------------------------------------------------------------------
(* Properties of compare_same_layout_meshes *)

\* the exact keys of the slots of a mesh group
GroupKeys(is_skinned, vs) ==
    {IF is_skinned THEN ExactSkinnedKey(RelevantBones, vs[i]) ELSE ExactKey(vs[i]) :
        i \in DOMAIN vs}

\* some fingerprint stored under a key of a has no approx_eq partner under that key of b
LacksPartner(a, b) ==
    \E k \in DOMAIN a.verts :
        \E x \in a.verts[k] :
            k \notin DOMAIN b.verts \/ \A y \in b.verts[k] : ~ApproxEq(x, y)

RemoveAt(s, i) == SubSeq(s, 1, i - 1) \o SubSeq(s, i + 1, Len(s))

\* dst is src with the first position component of one vertex offset by 0.2
OneVertexOffset(src, dst) ==
    \E i \in DOMAIN src : \E j \in DOMAIN dst :
        /\ dst[j] = [src[i] EXCEPT !.pos = <<src[i].pos[1] + 200000, src[i].pos[2],
                                             src[i].pos[3]>>]
        /\ RemoveAt(src, i) = RemoveAt(dst, j)

\* C2 (original): compare_same_layout_meshes reports in two stages, and hence
\* any change of a vertex that alters its quantized exact key, such as a 0.2 offset
\* of one position component, surfaces as exactly one fatal report.
C2_AnyKeyChangeIsFatal ==
    (pc = "meshes_compared" /\ OneVertexOffset(srcMesh, dstMesh))
        => (Len(reports) = 1 /\ reports[1].sev = "fatal")

\* C2 (amended): compare_same_layout_meshes makes at most one report per call.  If
\* the sets of exact keys of src and dst differ it reports exactly one fatal and
\* does not evaluate the tolerant difference; if they are equal it evaluates the
\* tolerant difference in both directions and reports exactly one recoverable
\* when either is non-empty, and nothing otherwise.  A changed vertex surfaces as
\* fatal exactly when the change alters the set of exact keys of its side.
C2_TwoStageReport ==
    pc = "meshes_compared" =>
        /\ Len(reports) <= 1
        /\ GroupKeys(skinned, srcMesh) # GroupKeys(skinned, dstMesh) =>
              /\ Len(reports) = 1 /\ reports[1].sev = "fatal"
              /\ \A n \in DOMAIN evaluated : evaluated[n] # "difference"
        /\ GroupKeys(skinned, srcMesh) = GroupKeys(skinned, dstMesh) =>
              /\ Cardinality({n \in DOMAIN evaluated : evaluated[n] = "difference"}) = 2
              /\ IF LacksPartner(srcVertices, dstVertices) \/ LacksPartner(dstVertices, srcVertices)
                 THEN Len(reports) = 1 /\ reports[1].sev = "recoverable"
                 ELSE reports = <<>>

\* dst is src with one vertex offset by 0.2, its key new to dst: reported as fatal
C2_Witness ==
    /\ pc = "meshes_compared"
    /\ OneVertexOffset(srcMesh, dstMesh)
    /\ Len(srcMesh) = MaxMeshVerts
    /\ GroupKeys(skinned, srcMesh) # GroupKeys(skinned, dstMesh)
    /\ Len(reports) = 1 /\ reports[1].sev = "fatal"
    /\ evaluated = <<"exact_difference", "exact_difference">>

-----------------------------------------------------------------------------
(* Properties of compare_same_layout_mesh_vertex_fusions and check_one_to_one *)

\* one of the three lists check_one_to_one returned holds an entry
SomeListHolds(r) ==
    \/ Len(r.has_no_equiv_in_other) > 0
    \/ Len(r.was_unfused_in_other) > 0
    \/ Len(r.other_vs_with_no_equiv_in_self) > 0

\* C3: compare_same_layout_mesh_vertex_fusions reports exactly one fatal when one
\* of the three lists of check_one_to_one is non-empty; exactly one recoverable
\* and no fatal when all three are empty and the numbers of fused vertices of src
\* and dst differ; nothing when all three are empty and the numbers are equal.
C3_FusionReport ==
    pc = "fusions_compared" =>
        /\ SomeListHolds(oneToOne) =>
              Len(reports) = 1 /\ reports[1].sev = "fatal"
        /\ (~SomeListHolds(oneToOne) /\ Len(srcFused.verts) # Len(dstFused.verts)) =>
              Len(reports) = 1 /\ reports[1].sev = "recoverable"
        /\ (~SomeListHolds(oneToOne) /\ Len(srcFused.verts) = Len(dstFused.verts)) =>
              reports = <<>>

\* src holds two close vertices of one signature where dst holds one: the lists
\* are empty, the counts differ, one recoverable report was made
C3_Witness ==
    /\ pc = "fusions_compared"
    /\ ~SomeListHolds(oneToOne)
    /\ Len(srcFused.verts) = 2 /\ Len(dstFused.verts) = 1
    /\ Len(reports) = 1 /\ reports[1].sev = "recoverable"

\* C4: the value compare_same_layout_meshes and
\* compare_same_layout_mesh_vertex_fusions return is true only if the call made
\* no fatal and no recoverable report.
C4_TrueOnlyWithoutMismatch ==
    (pc \in {"meshes_compared", "fusions_compared"} /\ ret = TRUE) =>
        \A k \in DOMAIN reports : reports[k].sev \notin {"fatal", "recoverable"}

\* the vertices of verts with the bone signature of v and closer to it than eps
Candidates(v, verts, eps) ==
    {i \in DOMAIN verts :
        /\ verts[i].bw = v.bw
        /\ LengthSquared(v.pos, verts[i].pos) < eps * eps}

\* the indices of the src vertices without a candidate in dst
SrcWithoutCandidate ==
    {i \in DOMAIN srcFused.verts :
        Candidates(srcFused.verts[i], dstFused.verts, DefaultPosEpsilon) = {}}

\* the indices of the src vertices with candidates in dst, more than in src
SrcWithMoreCandidates ==
    {i \in DOMAIN srcFused.verts :
        LET other == Candidates(srcFused.verts[i], dstFused.verts, DefaultPosEpsilon)
            self == Candidates(srcFused.verts[i], srcFused.verts, DefaultPosEpsilon)
        IN  other # {} /\ Cardinality(other) > Cardinality(self)}

\* C5: check_one_to_one(self, other) lists a vertex v of self as without
\* equivalent in other iff no vertex of other has v's bone signature within
\* pos_epsilon of v, and as unfused in other iff other holds such vertices and
\* more of them than self; every other vertex is listed nowhere.  A src vertex at P
\* that dst holds as P and P + e, e < pos_epsilon, of one signature, yields exactly
\* one unfused entry with 2 candidates in other against 1 in self.
C5_Classification ==
    pc = "fusions_compared" =>
        /\ oneToOne.raised = "none"
        /\ Len(oneToOne.has_no_equiv_in_other) = Cardinality(SrcWithoutCandidate)
        /\ Len(oneToOne.was_unfused_in_other) = Cardinality(SrcWithMoreCandidates)
        /\ \A i \in DOMAIN srcFused.verts :
              /\ i \in SrcWithoutCandidate <=>
                    \E n \in DOMAIN oneToOne.has_no_equiv_in_other :
                        oneToOne.has_no_equiv_in_other[n] = srcFused.verts[i]
              /\ i \in SrcWithMoreCandidates <=>
                    \E n \in DOMAIN oneToOne.was_unfused_in_other :
                        LET u == oneToOne.was_unfused_in_other[n]
                        IN  /\ u.pos = srcFused.verts[i].pos
                            /\ u.bw = srcFused.verts[i].bw
                            /\ Len(u.other_cands) =
                                  Cardinality(Candidates(srcFused.verts[i], dstFused.verts,
                                                         DefaultPosEpsilon))
                            /\ Len(u.self_cands) =
                                  Cardinality(Candidates(srcFused.verts[i], srcFused.verts,
                                                         DefaultPosEpsilon))
        /\ (srcWeld = <<WeldMenu[1]>> /\ dstWeld = <<WeldMenu[1], WeldMenu[2]>>) =>
              /\ oneToOne.has_no_equiv_in_other = <<>>
              /\ Len(oneToOne.was_unfused_in_other) = 1
              /\ Len(oneToOne.was_unfused_in_other[1].other_cands) = 2
              /\ Len(oneToOne.was_unfused_in_other[1].self_cands) = 1

\* src holds P, dst holds P and P + e: one unfused entry, 2 candidates against 1
C5_Witness ==
    /\ pc = "fusions_compared"
    /\ srcWeld = <<WeldMenu[1]>> /\ dstWeld = <<WeldMenu[1], WeldMenu[2]>>
    /\ oneToOne.has_no_equiv_in_other = <<>>
    /\ Len(oneToOne.was_unfused_in_other) = 1
    /\ Len(oneToOne.was_unfused_in_other[1].other_cands) = 2
    /\ Len(oneToOne.was_unfused_in_other[1].self_cands) = 1

\* no two distinct members of S are closer than eps with one bone signature
NoTwoClose(S, eps) ==
    \A i \in DOMAIN S.verts : Candidates(S.verts[i], S.verts, eps) = {i}

\* C6: for an index S in which no two distinct members are closer than
\* pos_epsilon with matching bone signature, S.check_one_to_one(S) completes and
\* returns three empty lists.
C6_SelfCheckIsClean ==
    (pc = "self_checked" /\ NoTwoClose(srcFused, DefaultPosEpsilon)) =>
        /\ oneToOne.raised = "none"
        /\ ~SomeListHolds(oneToOne)

-----------------------------------------------------------------------------
(* Properties of VertSet and VertApproxData *)

\* C7: for a VertSet S built by add calls, S.exact_difference(S) is the empty set
\* and S.difference(S) is the empty mapping.
C7_SelfDifferenceIsEmpty ==
    pc = "self_differenced" =>
        /\ ret.exact_difference = {}
        /\ DOMAIN ret.difference = {}

\* C8: approx_eq is reflexive: x.approx_eq(x) is true for every fingerprint x,
\* whatever its rounded normal is and whether or not it has one.
C8_ApproxEqReflexive ==
    (pc = "approx_compared" /\ ret.self = ret.other) => ret.approx_eq = TRUE

\* the fingerprints of A under key k without an approx_eq partner under k in B
\* (all of them when B lacks k)
Unpartnered(A, B, k) ==
    {x \in A.verts[k] :
        k \in VertSetKeys(B) => \A y \in B.verts[k] : ~ApproxEq(x, y)}

\* C15: A.difference(B) is exactly the mapping that sends each key of A absent
\* from B to all of A's fingerprints for it, each key of both to the fingerprints
\* of A for it that approx_eq none of B's, unless there is none, and holds no
\* other key; so no key is mapped to an empty collection, and the result is empty
\* iff every (key, fingerprint) of A has an approx_eq partner under that key in B.
C15_DifferenceCharacterised ==
    pc = "differenced" =>
        /\ DOMAIN ret.difference \subseteq VertSetKeys(srcVertices)
        /\ \A k \in VertSetKeys(srcVertices) \ VertSetKeys(dstVertices) :
              k \in DOMAIN ret.difference /\ ret.difference[k] = srcVertices.verts[k]
        /\ \A k \in VertSetKeys(srcVertices) \cap VertSetKeys(dstVertices) :
              IF Unpartnered(srcVertices, dstVertices, k) = {}
              THEN k \notin DOMAIN ret.difference
              ELSE /\ k \in DOMAIN ret.difference
                   /\ ret.difference[k] = Unpartnered(srcVertices, dstVertices, k)
        /\ \A k \in DOMAIN ret.difference : ret.difference[k] # {}
        /\ DOMAIN ret.difference = {} <=>
              \A k \in VertSetKeys(srcVertices) :
                  Unpartnered(srcVertices, dstVertices, k) = {}

\* a key of both sets is mapped to some but not all of A's fingerprints for it,
\* one of the others matching one of B's two fingerprints only, and a key absent
\* from B is mapped to A's fingerprints for it
C15_Witness ==
    /\ pc = "differenced"
    /\ \E k \in DOMAIN ret.difference :
          /\ k \in VertSetKeys(dstVertices)
          /\ ret.difference[k] # srcVertices.verts[k]
          /\ \E x \in srcVertices.verts[k] \ ret.difference[k] :
                \E y \in dstVertices.verts[k] : ~ApproxEq(x, y)
    /\ \E k \in DOMAIN ret.difference : k \notin VertSetKeys(dstVertices)

\* the severities reported with the given context, in order
SeveritiesOf(context) ==
    LET rs == SelectSeq(reports, LAMBDA r : r.context = context)
    IN  [n \in DOMAIN rs |-> rs[n].sev]

\* C17: the verdict of compare_meshes does not depend on which side is called
\* src: x.approx_eq(y) = y.approx_eq(x) for all fingerprints, those without a
\* normal included, and compare_meshes(src, dst) and compare_meshes(dst, src)
\* report the same severity (fatal, recoverable or nothing) and return the same
\* boolean.
C17_VerdictIsSymmetric ==
    pc = "both_compared" =>
        /\ \A p \in DOMAIN ret.approx_eq :
              ret.approx_eq[p] = ret.approx_eq[<<p[2], p[1]>>]
        /\ SeveritiesOf(<<"forward">>) = SeveritiesOf(<<"backward">>)
        /\ ret.forward = ret.backward

\* the tolerant difference is non-empty from src to dst and empty from dst to
\* src, both calls report recoverable and return false; and a fingerprint
\* without a normal has been compared with one that has a normal
C17_Witness ==
    /\ pc = "both_compared"
    /\ ret.forward = FALSE /\ ret.backward = FALSE
    /\ SeveritiesOf(<<"forward">>) = <<"recoverable">>
    /\ SeveritiesOf(<<"backward">>) = <<"recoverable">>
    /\ DOMAIN Difference(srcVertices, dstVertices) # {}
    /\ DOMAIN Difference(dstVertices, srcVertices) = {}

-----------------------------------------------------------------------------
(* Properties of compare_single_node_pair *)

\* the components of a field rounded to 3 decimals, a matrix row after row
RoundedField(n, f) ==
    IF f = "matrix"
    THEN [i \in 1..(Len(n.matrix[1]) + Len(n.matrix[2])) |->
             IF i <= Len(n.matrix[1]) THEN Round3(n.matrix[1][i])
             ELSE Round3(n.matrix[2][i - Len(n.matrix[1])])]
    ELSE [i \in DOMAIN n[f] |-> Round3(n[f][i])]

\* the sum of the absolute differences of the rounded components, in 1e-3
RoundedDrift(src, dst, f) ==
    LET s == RoundedField(src, f)
        d == RoundedField(dst, f)
    IN  SumSeq([i \in DOMAIN s |-> IF s[i] >= d[i] THEN s[i] - d[i] ELSE d[i] - s[i]])

ReportsOfField(f) == SelectSeq(reports, LAMBDA r : r.field = f)

\* the continuous fields compared for a src node
ContinuousFields(src) ==
    VecFields \cup (IF src.node_type = "SkinnedMesh" THEN {} ELSE {"matrix"})

-----------------------------------------------------------------------------
(* Properties of the mesh checks of compare_single_node_pair *)

\* the attribute sets of the meshes of a node
AttrSetsOf(n) == {n.mesh_list[i].attribute_set : i \in DOMAIN n.mesh_list}

\* the reports of the mesh checks of a node pair that tell of a mismatch
MeshMismatchReports ==
    SelectSeq(reports,
              LAMBDA r : /\ r.sev \in {"fatal", "recoverable"}
                         /\ r.what \in {"different sets of attribute sets",
                                        "exact data differs", "APPROX data differs",
                                        "fused vs don't match",
                                        "fused vs don't match, but we don't know why"})

\* C11: for a mesh-bearing node pair of one type, compare_single_node_pair
\* reports a difference between the sets of attribute sets of the two mesh lists
\* as fatal, and calls compare_same_layout_meshes and
\* compare_same_layout_mesh_vertex_fusions only if those sets are equal and
\* vertices is set: no such call is made when the sets differ or vertices is false.
C11_MeshCallsOnlyForEqualAttrSets ==
    (Len(calls) = 1 /\ srcRoots[1].node_type = dstRoots[1].node_type
                    /\ srcRoots[1].node_type # "MatrixTransform") =>
        /\ AttrSetsOf(srcRoots[1]) # AttrSetsOf(dstRoots[1]) =>
              \E k \in DOMAIN reports :
                  /\ reports[k].sev = "fatal"
                  /\ reports[k].what = "different sets of attribute sets"
        /\ calls[1].mesh_calls # <<>> =>
              (AttrSetsOf(srcRoots[1]) = AttrSetsOf(dstRoots[1]) /\ vertices)

\* C12: the info note that the meshes of a node pair are functionally identical
\* is made only if every mesh check of the pair passed: never together with a
\* fatal or recoverable report of the attribute-set comparison, of a
\* compare_same_layout_meshes call or of the fusion comparison.
C12_IdenticalNoteOnlyWhenAllPassed ==
    (Len(calls) = 1 /\ \E k \in DOMAIN reports :
                          reports[k].what = "meshes are functionally identical") =>
        MeshMismatchReports = <<>>

-----------------------------------------------------------------------------
(* Properties of FusedVertVoxelSet *)

\* the indices of a candidate list, in list order
IdxsOf(potential_verts) == [n \in DOMAIN potential_verts |-> potential_verts[n].idx]

\* C13: the neighbour search of check_one_to_one misses no match: for a self
\* vertex v, at positions of either sign, the candidates gathered from the 4x4x4
\* block of voxels at offsets -1, 0, +1, +2 per axis around v's voxel are exactly
\* the vertices of the searched index with v's bone signature at a squared
\* distance below pos_epsilon^2 of v, each once; the voxel sizes are equal and
\* above pos_epsilon.
C13_WindowSearchIsBruteForce ==
    pc = "gathered" =>
        /\ srcFused.voxel_size = dstFused.voxel_size
        /\ srcFused.voxel_size > DefaultPosEpsilon
        /\ Range(IdxsOf(ret.potential_other_verts)) =
              Candidates(srcFused.verts[ret.self_vert], dstFused.verts, DefaultPosEpsilon)
        /\ Len(ret.potential_other_verts) =
              Cardinality(Range(IdxsOf(ret.potential_other_verts)))
        /\ Range(IdxsOf(ret.potential_self_verts)) =
              Candidates(srcFused.verts[ret.self_vert], srcFused.verts, DefaultPosEpsilon)
        /\ Len(ret.potential_self_verts) =
              Cardinality(Range(IdxsOf(ret.potential_self_verts)))

\* a self vertex of negative coordinates has a candidate in other that lies in
\* the voxel before its own, and one in self that lies in another voxel too
C13_Witness ==
    /\ pc = "gathered"
    /\ srcFused.verts[ret.self_vert].pos[1] < 0
    /\ \E n \in DOMAIN ret.potential_other_verts :
          VoxelOf(ret.potential_other_verts[n].pos, DefaultVoxelSize)[1] <
              VoxelOf(srcFused.verts[ret.self_vert].pos, DefaultVoxelSize)[1]
    /\ \E n \in DOMAIN ret.potential_self_verts :
          VoxelOf(ret.potential_self_verts[n].pos, DefaultVoxelSize) #
              VoxelOf(srcFused.verts[ret.self_vert].pos, DefaultVoxelSize)

\* C14: a call check_one_to_one(self, other) leaves both indices as they were
\* built: the vertex records and the mapping of voxels to members, its set of
\* keys included, of self and of other are after the call what they were before it.
C14_CheckLeavesIndicesUnchanged ==
    pc = "fusions_compared" =>
        /\ srcFused = find_fusion_output_vs(skinned, RelevantBones, srcWeld)
        /\ dstFused = find_fusion_output_vs(skinned, RelevantBones, dstWeld)

\* the indices of the dst vertices that are a candidate of no src vertex
DstWithoutCandidate ==
    {i \in DOMAIN dstFused.verts :
        \A j \in DOMAIN srcFused.verts :
            i \notin Candidates(srcFused.verts[j], dstFused.verts, DefaultPosEpsilon)}

\* C16: check_one_to_one(self, other) returns as without equivalent in self
\* exactly the vertices of other that are a candidate (equal bone signature,
\* squared distance below pos_epsilon^2) of no self vertex: each of them is
\* listed, once, and no vertex of other that has such a self vertex is listed.
C16_NoEquivalentInSelf ==
    pc = "fusions_compared" =>
        /\ oneToOne.raised = "none"
        /\ Len(oneToOne.other_vs_with_no_equiv_in_self) = Cardinality(DstWithoutCandidate)
        /\ oneToOne.other_vs_with_no_equiv_in_self =
              SelectSeq(dstFused.verts,
                        LAMBDA v : \E i \in DstWithoutCandidate : dstFused.verts[i] = v)

\* dst holds a vertex within pos_epsilon of a src vertex, in the next voxel, and
\* a vertex near no src vertex: the second one alone is listed
C16_Witness ==
    /\ pc = "fusions_compared"
    /\ Len(oneToOne.other_vs_with_no_equiv_in_self) = 1
    /\ Len(dstFused.verts) = 2
    /\ \E i \in DOMAIN dstFused.verts, j \in DOMAIN srcFused.verts :
          /\ i \in Candidates(srcFused.verts[j], dstFused.verts, DefaultPosEpsilon)
          /\ dstFused.verts[i].pos # srcFused.verts[j].pos
          /\ oneToOne.other_vs_with_no_equiv_in_self[1] # dstFused.verts[i]

====
